---- MODULE Spec2Model ----
(***************************************************************************)
(* Order lifecycle and acceptance countdown of the merchant dashboard.     *)
(*                                                                         *)
(* Five pieces of the repository are modelled.  Spec runs one of them,     *)
(* chosen at the start (variable mounted); the others stay parked:         *)
(*   - "countdown": the OrderManagement component with the acceptance      *)
(*     countdown (src/src/components/merchant/OrderManagement.tsx);        *)
(*   - "api": the gateway-backed OrderManagement component                 *)
(*     (src/unnamed/part_003);                                             *)
(*   - "hook": the useOrders hook (src/src/hooks/useMerchantApi.js);       *)
(*   - "auth": the session, i.e. the AuthProvider (src/unnamed/part_000),  *)
(*     the token of src/src/services/api.ts and the axios instance of      *)
(*     src/src/api/merchantApi.js;                                         *)
(*   - "provider": the AuthProvider of src/unnamed/part_006 with the same  *)
(*     axios instance.                                                     *)
(* SpecCountdown is the countdown alone over its full two minutes;         *)
(* SpecRemount is the countdown component unmounted and mounted again;     *)
(* SpecOffer is the form of the OfferDialog                                *)
(* (src/src/components/merchant/OfferDialog.tsx); SpecProducts is the      *)
(* filtered and sorted product list (ProductManagement.tsx, part_001).     *)
(*                                                                         *)
(* Time is the value of Date.now() in milliseconds, relative to the        *)
(* moment the countdown component mounted (T0 = 0).  An optional field     *)
(* (string | undefined, number | undefined) is a set with at most one      *)
(* element: {} is undefined.                                               *)
(***************************************************************************)
EXTENDS Integers, Sequences, FiniteSets, TLC

VARIABLES
    mounted,         \* which holder of the order list is running:
                     \* "countdown" (OrderManagement.tsx), "api" (part_003), "hook" (useOrders)
    \* ---- countdown component (OrderManagement.tsx)
    orders,          \* useState<Order[]>
    selectedOrder,   \* useState<Order | null>: {} or {snapshot of an order}
    now,             \* Date.now(), ms since mount
    lastTick,        \* Date.now() when the interval callback last ran (mount time at first)
    lastToast,       \* the toast most recently raised
    expiredToasts,   \* per order index: how many "Order Expired" toasts were raised
    decidedAt,       \* per order index: {} or {Date.now() of the merchant's last accept/decline}
    displayed,       \* whether the component is mounted
    intervals,       \* number of intervals set with setInterval and not cleared
    \* ---- gateway-backed component (part_003) and useOrders hook
    apiOrders,       \* useState<Order[]> / useState([])
    apiLoading,      \* useState(true)
    apiSelected,     \* part_003: useState<Order | null>, {} or {snapshot}
    apiToast,        \* part_003: the toast most recently raised
    hookError,       \* useOrders: useState(null), {} or {message}
    settled,         \* useOrders: {} or {how the promise of the last finished call settled}
    calls,           \* number of status-update requests issued so far
    statusFilter,    \* part_003: useState<string>('all')
    searchQuery,     \* part_003: useState('')
    hookFilters,     \* useOrders: the filters argument, {} or {status}
    fetchCount,      \* number of order-list requests issued so far
    dropped,         \* the orders the last failed order-list request removed from the list
    \* ---- gateway
    fetches,         \* order-list requests in flight
    requests,        \* status-update requests in flight
    server,          \* the orders as the gateway holds them
    acked,           \* status updates the gateway has acknowledged: set of <<order id, status>>
    \* ---- session (AuthProvider of part_000, api.ts, merchantApi.js)
    user,            \* AuthProvider: useState<User | null>, {} or {user id}
    authToken,       \* api.ts: let authToken: string | null, {} or {token}
    localStorage,    \* window.localStorage: key -> {} or {value}
    inflight,        \* authenticated requests in flight
    thrown,          \* {} or {the error the request that finished last threw}
    \* ---- AuthProvider of part_006
    merchant,        \* useState(null): {} or {merchant id}
    isAuthenticated, \* useState(false)
    authLoading,     \* useState(true)
    authError,       \* useState(null): {} or {message}
    sessionStorage,  \* window.sessionStorage: key -> {} or {value}
    pending,         \* calls of authApi in flight: "login", "logout"
    logoutResult,    \* {} or {HTTP status of the answer to the last POST /auth/logout}
    \* ---- OfferDialog
    formData,        \* useState({...}): the fields of the form that are validated
    offerLoading,    \* useState(false)
    isOpen,          \* the isOpen prop: TRUE until onClose() is called
    offerToast,      \* the toast most recently raised by the dialog
    onSubmitCall,    \* {} or {the offerData of the onSubmit call in flight}
    submitted,       \* {} or {the offerData most recently passed to onSubmit}
    \* ---- product list (ProductManagement.tsx, part_001)
    listing,         \* which of the two components shows the list
    products,        \* useState<Product[]>
    filteredProducts,\* useState<Product[]>
    productQuery,    \* useState(''): searchQuery
    selectedCategory,\* useState('all')
    sortBy           \* useState('name')

timerVars == <<orders, selectedOrder, now, lastTick, lastToast, expiredToasts, decidedAt,
               displayed, intervals>>
filterVars == <<statusFilter, searchQuery>>
reloadVars == <<hookFilters, fetchCount, dropped>>
apiVars == <<apiOrders, apiLoading, apiSelected, apiToast, hookError, settled, calls,
             filterVars, reloadVars>>
gatewayVars == <<fetches, requests, server, acked>>
authVars == <<user, authToken, localStorage, inflight, thrown>>
providerVars == <<merchant, isAuthenticated, authLoading, authError, sessionStorage, pending,
                  logoutResult>>
offerVars == <<formData, offerLoading, isOpen, offerToast, onSubmitCall, submitted>>
productVars == <<listing, products, filteredProducts, productQuery, selectedCategory, sortBy>>
vars == <<mounted, orders, selectedOrder, now, lastTick, lastToast, expiredToasts, decidedAt,
          displayed, intervals,
          apiOrders, apiLoading, apiSelected, apiToast, hookError, settled, calls,
          statusFilter, searchQuery, hookFilters, fetchCount, dropped,
          fetches, requests, server, acked,
          user, authToken, localStorage, inflight, thrown,
          merchant, isAuthenticated, authLoading, authError, sessionStorage, pending,
          logoutResult,
          formData, offerLoading, isOpen, offerToast, onSubmitCall, submitted,
          listing, products, filteredProducts, productQuery, selectedCategory, sortBy>>

\* ------------------------------------------------------------------ bounds
ClockStepMs == 500        \* resolution of the modelled clock
MaxLateMs == 500          \* how late, at most, an interval callback runs
LateStartMs == 116000     \* a run may start this long into an undisturbed countdown
MaxRunMs == 5000          \* how long a run of the countdown component lasts in Spec
MaxCalls == 2             \* status-update requests issued in a run
MaxFetches == 2           \* order-list requests issued in a run
MaxOps == 3               \* requests of both kinds issued by a caller of useOrders in a run
CountdownRunMs == 122000  \* how long a run of SpecCountdown lasts

\* ------------------------------------------------------- program constants
OfferWindowMs == 2 * 60 * 1000
DeliveryWindowMs == 90 * 60 * 1000
TickPeriodMs == 1000

Max(a, b) == IF a >= b THEN a ELSE b

\* ------------------------------------------------------------- timestamps
\* Date.prototype.toISOString: "YYYY-MM-DDTHH:mm:ss.sssZ", kept as the whole
\* seconds and the millisecond digits of the string.
toISOString(ms) == [sec |-> ms \div 1000, msec |-> ms % 1000]

\* new Date(isoString).getTime()
getTime(iso) == iso.sec * 1000 + iso.msec

The(opt) == CHOOSE x \in opt : TRUE

\* ---------------------------------------------------------------- strings
\* the characters of the strings that are searched or searched for
Chars(str) ==
    CASE str = "" -> << >>
      [] str = "o1" -> <<"o", "1">>
      [] str = "o2" -> <<"o", "2">>
      [] str = "O1" -> <<"O", "1">>
      [] str = "X" -> <<"X">>
      [] str = "Max" -> <<"M", "a", "x">>
      [] str = "Bo" -> <<"B", "o">>
      [] str = "551" -> <<"5", "5", "1">>
      [] str = "55x2" -> <<"5", "5", "x", "2">>
      [] str = "  " -> <<" ", " ">>
      [] str = "Sale" -> <<"S", "a", "l", "e">>
      [] str = "Cola" -> <<"C", "o", "l", "a">>
      [] str = "Bread" -> <<"B", "r", "e", "a", "d">>
      [] str = "Chips" -> <<"C", "h", "i", "p", "s">>
      [] str = "Acme" -> <<"A", "c", "m", "e">>
      [] str = "Coca" -> <<"C", "o", "c", "a">>
      [] str = "co" -> <<"c", "o">>

\* String.prototype.toLowerCase, on the characters that occur
toLowerCase(cs) ==
    [i \in DOMAIN cs |->
        CASE cs[i] = "A" -> "a"
          [] cs[i] = "B" -> "b"
          [] cs[i] = "C" -> "c"
          [] cs[i] = "S" -> "s"
          [] cs[i] = "M" -> "m"
          [] cs[i] = "O" -> "o"
          [] cs[i] = "X" -> "x"
          [] OTHER -> cs[i]]

\* String.prototype.includes
includes(cs, q) ==
    \E k \in 0..(Len(cs) - Len(q)) : SubSeq(cs, k + 1, k + Len(q)) = q

\* variant: nothing is trimmed
trimNone(cs) == cs

\* String.prototype.trim
RECURSIVE trim(_)
trim(cs) ==
    IF cs = << >> THEN cs
    ELSE IF Head(cs) = " " THEN trim(Tail(cs))
    ELSE IF cs[Len(cs)] = " " THEN trim(SubSeq(cs, 1, Len(cs) - 1))
    ELSE cs

\* ------------------------------------------------------------- mock data
\* The literal dates of the mock orders lie before the mount; 12:00:00Z of
\* 2024-01-15 is MockDayNoon.
MockDayNoon == 0 - 10 * 24 * 60 * 60 * 1000
MockTime(h, m) == toISOString(MockDayNoon + ((h - 12) * 60 + m) * 60 * 1000)

mockOrders(t) == <<
    [id |-> "ORD-001", status |-> "pending", orderTime |-> MockTime(14, 30),
     estimatedDelivery |-> {},
     offerExpiry |-> {toISOString(t + OfferWindowMs)}, timeRemaining |-> {120}],
    [id |-> "ORD-002", status |-> "accepted", orderTime |-> MockTime(13, 15),
     estimatedDelivery |-> {MockTime(15, 30)},
     offerExpiry |-> {}, timeRemaining |-> {}],
    [id |-> "ORD-003", status |-> "in-delivery", orderTime |-> MockTime(12, 0),
     estimatedDelivery |-> {MockTime(14, 0)},
     offerExpiry |-> {}, timeRemaining |-> {}] >>

NoToast == [title |-> "", description |-> "", variant |-> "default"]

\* ------------------------------------------------------- countdown callback
\* variant: Math.ceil instead of Math.floor
TimeLeftCeil(expiry, t) == Max(0, (expiry - t + 999) \div 1000)

\* Math.max(0, Math.floor((expiry - now) / 1000))
TimeLeft(expiry, t) == Max(0, (expiry - t) \div 1000)

\* variant: the expiry test without the check of the status
ExpiresAnyStatus(order, t) ==
    /\ order.offerExpiry # {}
    /\ TimeLeft(getTime(The(order.offerExpiry)), t) = 0

Expires(order, t) ==
    /\ order.status = "pending"
    /\ order.offerExpiry # {}
    /\ TimeLeft(getTime(The(order.offerExpiry)), t) = 0

\* variant: every order gets a timeRemaining, 0 where there is no offerExpiry
TickOrderStampsAll(order, t) ==
    IF order.offerExpiry # {}
    THEN LET timeLeft == TimeLeft(getTime(The(order.offerExpiry)), t)
         IN  IF order.status # "pending" THEN order
             ELSE IF timeLeft = 0
                  THEN [order EXCEPT !.status = "declined", !.timeRemaining = {0}]
                  ELSE [order EXCEPT !.timeRemaining = {timeLeft}]
    ELSE [order EXCEPT !.timeRemaining = {0}]

\* the function mapped over prevOrders by the interval callback
TickOrder(order, t) ==
    IF order.status = "pending" /\ order.offerExpiry # {}
    THEN LET timeLeft == TimeLeft(getTime(The(order.offerExpiry)), t)
         IN  IF timeLeft = 0
             THEN [order EXCEPT !.status = "declined", !.timeRemaining = {0}]
             ELSE [order EXCEPT !.timeRemaining = {timeLeft}]
    ELSE order

TickOrders(os, t) == [i \in DOMAIN os |-> TickOrder(os[i], t)]

ExpiredToast(order) ==
    [title |-> "Order Expired", description |-> order.id, variant |-> "destructive"]

\* the toast left on screen by one run of the callback: the last one raised
TickToast(os, t, prev) ==
    LET hit == {i \in DOMAIN os : Expires(os[i], t)}
    IN  IF hit = {} THEN prev
        ELSE ExpiredToast(os[CHOOSE i \in hit : \A j \in hit : j <= i])

\* ------------------------------------------------------- updateOrderStatus
statusMessages(newStatus) ==
    CASE newStatus = "accepted" -> "Order accepted successfully!"
      [] newStatus = "declined" -> "Order declined."
      [] newStatus = "in-delivery" -> "Order marked as in delivery."
      [] newStatus = "delivered" -> "Order marked as delivered."

\* variant: the delivery estimate is computed but the timer fields are kept
UpdatedOrderKeepsTimer(order, newStatus, t) ==
    [order EXCEPT !.status = newStatus,
                  !.estimatedDelivery =
                      IF newStatus = "accepted"
                      THEN {toISOString(t + DeliveryWindowMs)}
                      ELSE order.estimatedDelivery]

\* variant: the delivery estimate is written whatever the new status is
UpdatedOrderEtaAlways(order, newStatus, t) ==
    [order EXCEPT !.status = newStatus,
                  !.estimatedDelivery = {toISOString(t + DeliveryWindowMs)},
                  !.offerExpiry = {},
                  !.timeRemaining = {}]

UpdatedOrder(order, newStatus, t) ==
    [order EXCEPT !.status = newStatus,
                  !.estimatedDelivery =
                      IF newStatus = "accepted"
                      THEN {toISOString(t + DeliveryWindowMs)}
                      ELSE order.estimatedDelivery,
                  !.offerExpiry = {},
                  !.timeRemaining = {}]

\* variant: the update is applied only where the status button is still valid
updateOrderStatusValidated(os, orderId, newStatus, t) ==
    [i \in DOMAIN os |->
        IF os[i].id = orderId /\ os[i].status \in {"pending", "accepted", "in-delivery"}
        THEN UpdatedOrder(os[i], newStatus, t) ELSE os[i]]

updateOrderStatus(os, orderId, newStatus, t) ==
    [i \in DOMAIN os |->
        IF os[i].id = orderId THEN UpdatedOrder(os[i], newStatus, t) ELSE os[i]]

UpdateToast(newStatus) ==
    [title |-> "Order Status Updated", description |-> statusMessages(newStatus),
     variant |-> "default"]

\* ghost: when the merchant last pressed Accept or Decline for each order
Decided(os, orderId, newStatus, t) ==
    [i \in DOMAIN os |->
        IF os[i].id = orderId /\ newStatus \in {"accepted", "declined"}
        THEN {t} ELSE decidedAt[i]]

\* the status buttons rendered for an order of the given status, on its card
\* and in the details dialog
StatusButtons(status) ==
    CASE status = "pending" -> {"declined", "accepted"}
      [] status = "accepted" -> {"in-delivery"}
      [] status = "in-delivery" -> {"delivered"}
      [] OTHER -> {}

\* the options of the status filter
MockStatusFilters ==
    {"all", "pending", "accepted", "declined", "in-delivery", "delivered"}

\* setFilteredOrders(...) of the filter effect
filteredOrders(os, sf) ==
    LET Keep(o) == o.status = sf
    IN  IF sf = "all" THEN os ELSE SelectSeq(os, Keep)

\* ------------------------------------------------------------------ Init
\* Right after mount, or LateStartMs into a countdown during which the
\* merchant did nothing and the interval callback has just run.
InitTimer(starts) ==
    /\ now \in starts
    /\ lastTick = now
    /\ orders = IF now = 0 THEN mockOrders(0) ELSE TickOrders(mockOrders(0), now)
    /\ selectedOrder = {}
    /\ lastToast = NoToast
    /\ expiredToasts = [i \in 1..3 |-> 0]
    /\ decidedAt = [i \in 1..3 |-> {}]
    /\ displayed = TRUE
    /\ intervals = 1

\* --------------------------------------------------------------- actions
RunEnd == IF now < LateStartMs THEN MaxRunMs ELSE LateStartMs + MaxRunMs

\* time passes; the interval callback is at most MaxLateMs late
Pass(end) ==
    /\ mounted = "countdown"
    /\ now + ClockStepMs <= end
    /\ intervals > 0 => now + ClockStepMs - lastTick <= TickPeriodMs + MaxLateMs
    /\ now' = now + ClockStepMs
    /\ UNCHANGED <<orders, selectedOrder, lastTick, lastToast, expiredToasts, decidedAt>>
    /\ UNCHANGED <<displayed, intervals>>
    /\ UNCHANGED <<mounted, apiVars, gatewayVars, authVars, providerVars,
                   offerVars, productVars>>

Advance == Pass(RunEnd)

\* the setInterval callback, run as long as an interval is set
Tick ==
    /\ mounted = "countdown"
    /\ intervals > 0
    /\ now - lastTick >= TickPeriodMs
    /\ orders' = TickOrders(orders, now)
    /\ lastToast' = TickToast(orders, now, lastToast)
    /\ expiredToasts' = [i \in DOMAIN orders |->
            IF Expires(orders[i], now) THEN expiredToasts[i] + 1 ELSE expiredToasts[i]]
    /\ lastTick' = now
    /\ UNCHANGED <<selectedOrder, now, decidedAt, displayed, intervals>>
    /\ UNCHANGED <<mounted, apiVars, gatewayVars, authVars, providerVars,
                   offerVars, productVars>>

\* "View Details" on a card
ViewDetails ==
    /\ mounted = "countdown"
    /\ displayed
    /\ selectedOrder = {}
    /\ \E i \in DOMAIN orders : selectedOrder' = {orders[i]}
    /\ UNCHANGED <<orders, now, lastTick, lastToast, expiredToasts, decidedAt>>
    /\ UNCHANGED <<displayed, intervals>>
    /\ UNCHANGED <<mounted, apiVars, gatewayVars, authVars, providerVars,
                   offerVars, productVars>>

\* the dialog is dismissed
CloseDetails ==
    /\ mounted = "countdown"
    /\ displayed
    /\ selectedOrder # {}
    /\ selectedOrder' = {}
    /\ UNCHANGED <<orders, now, lastTick, lastToast, expiredToasts, decidedAt>>
    /\ UNCHANGED <<displayed, intervals>>
    /\ UNCHANGED <<mounted, apiVars, gatewayVars, authVars, providerVars,
                   offerVars, productVars>>

\* a status button on a card; the cards show the current orders, and the
\* open dialog is modal
CardUpdate ==
    /\ mounted = "countdown"
    /\ displayed
    /\ selectedOrder = {}
    /\ \E i \in DOMAIN orders : \E newStatus \in StatusButtons(orders[i].status) :
          /\ orders' = updateOrderStatus(orders, orders[i].id, newStatus, now)
          /\ lastToast' = UpdateToast(newStatus)
          /\ decidedAt' = Decided(orders, orders[i].id, newStatus, now)
    /\ UNCHANGED <<selectedOrder, now, lastTick, expiredToasts, displayed, intervals>>
    /\ UNCHANGED <<mounted, apiVars, gatewayVars, authVars, providerVars,
                   offerVars, productVars>>

\* a status button in the details dialog, which shows the snapshot
DialogUpdate ==
    /\ mounted = "countdown"
    /\ displayed
    /\ selectedOrder # {}
    /\ \E newStatus \in StatusButtons(The(selectedOrder).status) :
          /\ orders' = updateOrderStatus(orders, The(selectedOrder).id, newStatus, now)
          /\ lastToast' = UpdateToast(newStatus)
          /\ decidedAt' = Decided(orders, The(selectedOrder).id, newStatus, now)
    /\ selectedOrder' = {}
    /\ UNCHANGED <<now, lastTick, expiredToasts, displayed, intervals>>
    /\ UNCHANGED <<mounted, apiVars, gatewayVars, authVars, providerVars,
                   offerVars, productVars>>

\* ======================================================================
\* The gateway (PUT /orders/{id}/status, GET /orders[?status=...])
\* ======================================================================
ApiOrder(id, name, phone, st, ot) ==
    [order_id |-> id, customer_name |-> name, customer_phone |-> phone,
     status |-> st, order_time |-> ot, estimated_delivery |-> {}]

\* what the gateway may hold when the client starts
ServerStates ==
    { << ApiOrder("o1", "Max", "551", s1, t1),
         ApiOrder("o2", "Bo", "55x2", s2, MockTime(12, 30)) >> :
         s1 \in {"pending", "ready"}, s2 \in {"pending", "accepted"},
         t1 \in {MockTime(12, 0), MockTime(13, 0)} }

\* what it may hold when a caller of useOrders starts
HookServerStates ==
    { s \in ServerStates : s[1].order_time = MockTime(12, 0) /\ s[2].status = "pending" }

ServerIds == {"o1", "o2"}

\* GET /orders[?status=...]: answered with the matching orders, or refused
GatewayGetOrders ==
    \E f \in fetches :
       /\ f.state = "sent"
       /\ \/ LET Matches(o) == f.filter = {} \/ o.status \in f.filter
             IN  fetches' = (fetches \ {f}) \cup
                     {[f EXCEPT !.state = "ok", !.payload = SelectSeq(server, Matches)]}
          \/ fetches' = (fetches \ {f}) \cup {[f EXCEPT !.state = "failed"]}
       /\ UNCHANGED <<requests, server, acked>>
       /\ UNCHANGED <<mounted, timerVars, apiVars, authVars, providerVars,
                   offerVars, productVars>>

\* PUT /orders/{id}/status {status}: the gateway stores the status and answers
\* with the updated order, or refuses; an order it does not hold is refused
GatewayPutStatus ==
    \E r \in requests :
       /\ r.state = "sent"
       /\ \/ \E i \in DOMAIN server :
                /\ server[i].order_id = r.orderId
                /\ server' = [server EXCEPT ![i].status = r.status]
                /\ requests' = (requests \ {r}) \cup
                      {[r EXCEPT !.state = "ok", !.response = {server'[i]}]}
                /\ acked' = acked \cup {<<r.orderId, r.status>>}
          \/ /\ requests' = (requests \ {r}) \cup {[r EXCEPT !.state = "failed"]}
             /\ UNCHANGED <<server, acked>>
       /\ UNCHANGED fetches
       /\ UNCHANGED <<mounted, timerVars, apiVars, authVars, providerVars,
                   offerVars, productVars>>

\* `absent` is a ghost: the order list was loaded and held no order of that
\* id when the request was issued
NewRequest(orderId, newStatus) ==
    [rid |-> calls + 1, orderId |-> orderId, status |-> newStatus,
     state |-> "sent", response |-> {},
     absent |-> ~apiLoading /\ \A i \in DOMAIN apiOrders : apiOrders[i].order_id # orderId]

\* ======================================================================
\* The gateway-backed OrderManagement component (part_003)
\* ======================================================================
\* filtered.sort((a, b) => new Date(b.order_time) - new Date(a.order_time)):
\* a stable sort, newest first
\* variant: the comparison of the sort the other way round
RECURSIVE InsertOldest(_, _)
InsertOldest(sorted, o) ==
    IF sorted = << >> THEN <<o>>
    ELSE IF getTime(o.order_time) < getTime(Head(sorted).order_time)
         THEN <<o>> \o sorted
         ELSE <<Head(sorted)>> \o InsertOldest(Tail(sorted), o)

RECURSIVE InsertNewest(_, _)
InsertNewest(sorted, o) ==
    IF sorted = << >> THEN <<o>>
    ELSE IF getTime(o.order_time) > getTime(Head(sorted).order_time)
         THEN <<o>> \o sorted
         ELSE <<Head(sorted)>> \o InsertNewest(Tail(sorted), o)

RECURSIVE SortNewestFirst(_)
SortNewestFirst(s) ==
    IF s = << >> THEN << >>
    ELSE InsertNewest(SortNewestFirst(SubSeq(s, 1, Len(s) - 1)), s[Len(s)])

\* the options of the status filter, and the choices made in a run
StatusFilters ==
    {"all", "pending", "accepted", "preparing", "ready", "delivered", "cancelled"}
FilterChoices == {"all", "pending", "accepted"}
SearchChoices == {"", "O1", "X"}

\* the three tests of the search: id and name in lower case against the
\* query in lower case, the phone against the query as typed
MatchesSearch(order, q) ==
    \/ includes(toLowerCase(Chars(order.order_id)), toLowerCase(Chars(q)))
    \/ includes(toLowerCase(Chars(order.customer_name)), toLowerCase(Chars(q)))
    \/ includes(Chars(order.customer_phone), Chars(q))

\* `filtered` before the sort
Filtered(os, sf, q) ==
    LET Keep(o) == /\ sf # "all" => o.status = sf
                   /\ q # "" => MatchesSearch(o, q)
    IN  SelectSeq(os, Keep)

\* setFilteredOrders(filtered), after filtered.sort(...)
ListOrders(os, sf, q) == SortNewestFirst(Filtered(os, sf, q))

\* the orders array after the filter effect: with the status filter 'all'
\* and no search text `filtered` is the orders array itself, which sort()
\* reorders in place
FilterEffect(os, sf, q) ==
    IF sf = "all" /\ q = "" THEN SortNewestFirst(os) ELSE os

\* variant: the updated order is taken out of the list and put at its end
ReplaceOrderMoved(os, orderId, updatedOrder) ==
    LET Other(o) == o.order_id # orderId
    IN  SelectSeq(os, Other) \o <<updatedOrder>>

\* prev.map(order => order.order_id === orderId ? updatedOrder : order)
ReplaceOrder(os, orderId, updatedOrder) ==
    [i \in DOMAIN os |-> IF os[i].order_id = orderId THEN updatedOrder ELSE os[i]]

getStatusOptions(currentStatus) ==
    CASE currentStatus = "pending" -> {"accepted", "cancelled"}
      [] currentStatus = "accepted" -> {"preparing", "cancelled"}
      [] currentStatus = "preparing" -> {"ready", "cancelled"}
      [] currentStatus = "ready" -> {"delivered"}
      [] OTHER -> {}

ErrorToast == [title |-> "Error", description |-> "failed", variant |-> "destructive"]

StatusUpdatedToast(newStatus) ==
    [title |-> "Status Updated", description |-> newStatus, variant |-> "default"]

\* filteredOrders, as the filter effect leaves it
apiFilteredOrders == ListOrders(apiOrders, statusFilter, searchQuery)

\* variant: the orders shown stay when the request for the list fails
loadFailedKeeps(os) == os

\* the catch branch of loadOrders and of fetchOrders: setOrders([])
loadFailed(os) == << >>

\* loadOrders after the await
LoadOrdersDone ==
    /\ mounted = "api"
    /\ \E f \in fetches :
          /\ f.state # "sent"
          /\ fetches' = fetches \ {f}
          /\ IF f.state = "ok"
             THEN /\ apiOrders' = FilterEffect(f.payload, statusFilter, searchQuery)
                  /\ apiToast' = apiToast
             ELSE /\ apiOrders' = loadFailed(apiOrders)
                  /\ apiToast' = ErrorToast
          /\ dropped' = IF f.state = "ok" THEN dropped ELSE apiOrders
    /\ apiLoading' = FALSE
    /\ UNCHANGED <<apiSelected, hookError, settled, calls>>
    /\ UNCHANGED <<requests, server, acked>>
    /\ UNCHANGED <<filterVars, hookFilters, fetchCount>>
    /\ UNCHANGED <<mounted, timerVars, authVars, providerVars,
                   offerVars, productVars>>

\* variant: the clicked status is shown before the gateway has answered
handleStatusUpdateOptimistic(os, orderId, newStatus) ==
    [i \in DOMAIN os |->
        IF os[i].order_id = orderId THEN [os[i] EXCEPT !.status = newStatus] ELSE os[i]]

\* handleStatusUpdate up to the await: the orders are left alone
handleStatusUpdateSent(os, orderId, newStatus) == os

\* a status button on a card
ApiCardUpdate ==
    /\ mounted = "api"
    /\ ~apiLoading
    /\ apiSelected = {}
    /\ calls < MaxCalls
    /\ \E i \in DOMAIN apiFilteredOrders :
       \E newStatus \in getStatusOptions(apiFilteredOrders[i].status) :
          /\ requests' = requests \cup {NewRequest(apiFilteredOrders[i].order_id, newStatus)}
          /\ apiOrders' =
                handleStatusUpdateSent(apiOrders, apiFilteredOrders[i].order_id, newStatus)
    /\ calls' = calls + 1
    /\ UNCHANGED <<apiLoading, apiSelected, apiToast, hookError, settled>>
    /\ UNCHANGED <<fetches, server, acked>>
    /\ UNCHANGED <<filterVars, reloadVars>>
    /\ UNCHANGED <<mounted, timerVars, authVars, providerVars,
                   offerVars, productVars>>

\* a status button in the details dialog, which shows the snapshot
ApiDialogUpdate ==
    /\ mounted = "api"
    /\ apiSelected # {}
    /\ calls < MaxCalls
    /\ \E newStatus \in getStatusOptions(The(apiSelected).status) :
          /\ requests' = requests \cup {NewRequest(The(apiSelected).order_id, newStatus)}
          /\ apiOrders' =
                handleStatusUpdateSent(apiOrders, The(apiSelected).order_id, newStatus)
    /\ calls' = calls + 1
    /\ apiSelected' = {}
    /\ UNCHANGED <<apiLoading, apiToast, hookError, settled>>
    /\ UNCHANGED <<fetches, server, acked>>
    /\ UNCHANGED <<filterVars, reloadVars>>
    /\ UNCHANGED <<mounted, timerVars, authVars, providerVars,
                   offerVars, productVars>>

\* a click on a card opens the dialog on that order
ApiViewDetails ==
    /\ mounted = "api"
    /\ ~apiLoading
    /\ apiSelected = {}
    /\ \E i \in DOMAIN apiFilteredOrders : apiSelected' = {apiFilteredOrders[i]}
    /\ UNCHANGED <<apiOrders, apiLoading, apiToast, hookError, settled, calls>>
    /\ UNCHANGED gatewayVars
    /\ UNCHANGED <<filterVars, reloadVars>>
    /\ UNCHANGED <<mounted, timerVars, authVars, providerVars,
                   offerVars, productVars>>

ApiCloseDetails ==
    /\ mounted = "api"
    /\ apiSelected # {}
    /\ apiSelected' = {}
    /\ UNCHANGED <<apiOrders, apiLoading, apiToast, hookError, settled, calls>>
    /\ UNCHANGED gatewayVars
    /\ UNCHANGED <<filterVars, reloadVars>>
    /\ UNCHANGED <<mounted, timerVars, authVars, providerVars,
                   offerVars, productVars>>

\* the status filter is changed; the filter effect runs
SetStatusFilter ==
    /\ mounted = "api"
    /\ ~apiLoading
    /\ apiSelected = {}
    /\ \E sf \in FilterChoices \ {statusFilter} :
          /\ statusFilter' = sf
          /\ apiOrders' = FilterEffect(apiOrders, sf, searchQuery)
    /\ UNCHANGED <<apiLoading, apiSelected, apiToast, hookError, settled, calls>>
    /\ UNCHANGED <<searchQuery, reloadVars>>
    /\ UNCHANGED gatewayVars
    /\ UNCHANGED <<mounted, timerVars, authVars, providerVars,
                   offerVars, productVars>>

\* the search text is changed; the filter effect runs
SetSearchQuery ==
    /\ mounted = "api"
    /\ ~apiLoading
    /\ apiSelected = {}
    /\ \E q \in SearchChoices \ {searchQuery} :
          /\ searchQuery' = q
          /\ apiOrders' = FilterEffect(apiOrders, statusFilter, q)
    /\ UNCHANGED <<apiLoading, apiSelected, apiToast, hookError, settled, calls>>
    /\ UNCHANGED <<statusFilter, reloadVars>>
    /\ UNCHANGED gatewayVars
    /\ UNCHANGED <<mounted, timerVars, authVars, providerVars,
                   offerVars, productVars>>

\* handleStatusUpdate after the await
HandleStatusUpdateDone ==
    /\ mounted = "api"
    /\ \E r \in requests :
          /\ r.state # "sent"
          /\ requests' = requests \ {r}
          /\ IF r.state = "ok"
             THEN /\ apiOrders' = FilterEffect(ReplaceOrder(apiOrders, r.orderId,
                                                            The(r.response)),
                                               statusFilter, searchQuery)
                  /\ apiToast' = StatusUpdatedToast(r.status)
             ELSE /\ apiOrders' = apiOrders
                  /\ apiToast' = ErrorToast
    /\ UNCHANGED <<apiLoading, apiSelected, hookError, settled, calls>>
    /\ UNCHANGED <<fetches, server, acked>>
    /\ UNCHANGED <<filterVars, reloadVars>>
    /\ UNCHANGED <<mounted, timerVars, authVars, providerVars,
                   offerVars, productVars>>

\* ======================================================================
\* The useOrders hook
\* ======================================================================
\* the order ids and statuses a caller of the hook passes
CallerIds == ServerIds \cup {"o9"}
CallerStatuses == {"accepted", "cancelled"}

\* fetchOrders after the await
HookFetchDone ==
    /\ mounted = "hook"
    /\ \E f \in fetches :
          /\ f.state # "sent"
          /\ fetches' = fetches \ {f}
          /\ IF f.state = "ok"
             THEN /\ apiOrders' = f.payload
                  /\ hookError' = hookError
             ELSE /\ apiOrders' = loadFailed(apiOrders)
                  /\ hookError' = {"Failed to load orders"}
          /\ dropped' = IF f.state = "ok" THEN dropped ELSE apiOrders
    /\ apiLoading' = FALSE
    /\ UNCHANGED <<apiSelected, apiToast, settled, calls>>
    /\ UNCHANGED <<requests, server, acked>>
    /\ UNCHANGED <<filterVars, hookFilters, fetchCount>>
    /\ UNCHANGED <<mounted, timerVars, authVars, providerVars,
                   offerVars, productVars>>

\* refetch(): fetchOrders up to the await
HookRefetch ==
    /\ mounted = "hook"
    /\ fetchCount < MaxFetches
    /\ calls + fetchCount < MaxOps
    /\ fetchCount' = fetchCount + 1
    /\ fetches' = fetches \cup
          {[fid |-> fetchCount + 1, filter |-> hookFilters, state |-> "sent",
            payload |-> << >>]}
    /\ apiLoading' = TRUE
    /\ hookError' = {}
    /\ UNCHANGED <<apiOrders, apiSelected, apiToast, settled, calls>>
    /\ UNCHANGED <<filterVars, hookFilters, dropped>>
    /\ UNCHANGED <<requests, server, acked>>
    /\ UNCHANGED <<mounted, timerVars, authVars, providerVars,
                   offerVars, productVars>>

\* the filters a caller of the hook passes
CallerFilters == {{}, {"pending"}}

\* the caller renders with other filters: JSON.stringify(filters) differs,
\* fetchOrders is a new callback, and the effect that depends on it calls it
HookSetFilters ==
    /\ mounted = "hook"
    /\ fetchCount < MaxFetches
    /\ calls + fetchCount < MaxOps
    /\ \E filters \in CallerFilters \ {hookFilters} :
          /\ hookFilters' = filters
          /\ fetches' = fetches \cup
                {[fid |-> fetchCount + 1, filter |-> filters, state |-> "sent",
                  payload |-> << >>]}
    /\ fetchCount' = fetchCount + 1
    /\ apiLoading' = TRUE
    /\ hookError' = {}
    /\ UNCHANGED <<apiOrders, apiSelected, apiToast, settled, calls>>
    /\ UNCHANGED <<filterVars, dropped>>
    /\ UNCHANGED <<requests, server, acked>>
    /\ UNCHANGED <<mounted, timerVars, authVars, providerVars,
                   offerVars, productVars>>

\* updateOrderStatus(orderId, status) up to the await
HookUpdateOrderStatus ==
    /\ mounted = "hook"
    /\ calls < MaxCalls
    /\ calls + fetchCount < MaxOps
    /\ \E orderId \in CallerIds : \E status \in CallerStatuses :
          requests' = requests \cup {NewRequest(orderId, status)}
    /\ calls' = calls + 1
    /\ hookError' = {}
    /\ UNCHANGED <<apiOrders, apiLoading, apiSelected, apiToast, settled>>
    /\ UNCHANGED <<fetches, server, acked>>
    /\ UNCHANGED <<filterVars, reloadVars>>
    /\ UNCHANGED <<mounted, timerVars, authVars, providerVars,
                   offerVars, productVars>>

\* updateOrderStatus after the await: the promise resolves with the updated
\* order or rejects with an Error
HookUpdateDone ==
    /\ mounted = "hook"
    /\ \E r \in requests :
          /\ r.state # "sent"
          /\ requests' = requests \ {r}
          /\ IF r.state = "ok"
             THEN /\ apiOrders' = ReplaceOrder(apiOrders, r.orderId, The(r.response))
                  /\ hookError' = hookError
                  /\ settled' = {[rid |-> r.rid, orderId |-> r.orderId,
                                  result |-> "resolved"]}
             ELSE /\ apiOrders' = apiOrders
                  /\ hookError' = {"Failed to update order status"}
                  /\ settled' = {[rid |-> r.rid, orderId |-> r.orderId,
                                  result |-> "rejected"]}
    /\ UNCHANGED <<apiLoading, apiSelected, apiToast, calls>>
    /\ UNCHANGED <<fetches, server, acked>>
    /\ UNCHANGED <<filterVars, reloadVars>>
    /\ UNCHANGED <<mounted, timerVars, authVars, providerVars,
                   offerVars, productVars>>

\* ======================================================================
\* The session: AuthProvider (part_000), the token of api.ts, and the two
\* ways a request reaches the gateway (ApiService.request, axios instance)
\* ======================================================================
StorageKeys == {"auth_token", "merchant_user", "merchant_token", "merchant_data"}
SessionKeys == {"merchant_token", "merchant_data"}
MerchantIds == {"m1"}
Tokens == {"t1", "t2"}
UserIds == {"merchant-123", "merchant-google"}

\* the HTTP status of the gateway's answer
Outcomes == {200, 401, 500}

\* localStorage.setItem, localStorage.removeItem
setItem(storage, key, value) == [storage EXCEPT ![key] = {value}]
removeItem(storage, key) == [storage EXCEPT ![key] = {}]

\* getAuthToken(): the module variable, filled from localStorage when empty
getAuthToken == IF authToken = {} THEN localStorage["auth_token"] ELSE authToken

\* new Error('Authentication failed. Please login again.')
AuthFailedError ==
    [message |-> "Authentication failed. Please login again.", status |-> {}]

\* new Error(`API Error: ${response.status} ...`)
ApiError == [message |-> "API Error: 500", status |-> {}]

\* the AxiosError the response interceptor passes on
AxiosError(status) == [message |-> "Request failed", status |-> {status}]

\* login(email, password): the demo login sets the user, no token
Login ==
    /\ mounted = "auth"
    /\ user = {}
    /\ user' = {"merchant-123"}
    /\ localStorage' = setItem(localStorage, "merchant_user", "merchant-123")
    /\ UNCHANGED <<authToken, inflight, thrown>>
    /\ UNCHANGED <<mounted, timerVars, apiVars, gatewayVars, providerVars,
                   offerVars, productVars>>

\* loginWithGoogle() after the awaits, the backend having answered with a
\* token: setAuthToken(response.token), setUser, setItem('merchant_user')
LoginWithGoogle ==
    /\ mounted = "auth"
    /\ user = {}
    /\ \E token \in Tokens :
          /\ authToken' = {token}
          /\ localStorage' = setItem(setItem(localStorage, "auth_token", token),
                                     "merchant_user", "merchant-google")
    /\ user' = {"merchant-google"}
    /\ UNCHANGED <<inflight, thrown>>
    /\ UNCHANGED <<mounted, timerVars, apiVars, gatewayVars, providerVars,
                   offerVars, productVars>>

\* logout(): setUser(null), clearAuthToken(), removeItem('merchant_user')
Logout ==
    /\ mounted = "auth"
    /\ user # {}
    /\ user' = {}
    /\ authToken' = {}
    /\ localStorage' = removeItem(removeItem(localStorage, "auth_token"), "merchant_user")
    /\ UNCHANGED <<inflight, thrown>>
    /\ UNCHANGED <<mounted, timerVars, apiVars, gatewayVars, providerVars,
                   offerVars, productVars>>

\* ApiService.request up to the await of fetch: getAuthToken() fills the
\* module variable, the token goes into the Authorization header
RequestSend ==
    /\ mounted = "auth"
    /\ user # {}
    /\ authToken' = getAuthToken
    /\ inflight' = inflight \cup {[via |-> "fetch", token |-> getAuthToken]}
    /\ UNCHANGED <<user, localStorage, thrown>>
    /\ UNCHANGED <<mounted, timerVars, apiVars, gatewayVars, providerVars,
                   offerVars, productVars>>

\* the 401 branch of ApiService.request: clearAuthToken()
OnUnauthorized(token, storage) ==
    [token |-> {}, storage |-> removeItem(storage, "auth_token")]

\* ApiService.request after the await
RequestDone ==
    /\ mounted = "auth"
    /\ \E r \in inflight : \E status \in Outcomes :
          /\ r.via = "fetch"
          /\ inflight' = inflight \ {r}
          /\ IF status = 401
             THEN /\ authToken' = OnUnauthorized(authToken, localStorage).token
                  /\ localStorage' = OnUnauthorized(authToken, localStorage).storage
                  /\ thrown' = {AuthFailedError}
             ELSE /\ UNCHANGED <<authToken, localStorage>>
                  /\ thrown' = IF status = 200 THEN {} ELSE {ApiError}
    /\ UNCHANGED user
    /\ UNCHANGED <<mounted, timerVars, apiVars, gatewayVars, providerVars,
                   offerVars, productVars>>

\* the request interceptor of the axios instance
AxiosSend ==
    /\ \/ mounted = "auth" /\ user # {}
       \/ mounted = "provider" /\ isAuthenticated
    /\ inflight' = inflight \cup {[via |-> "axios", token |-> localStorage["auth_token"]]}
    /\ UNCHANGED <<user, authToken, localStorage, thrown>>
    /\ UNCHANGED <<mounted, timerVars, apiVars, gatewayVars, providerVars,
                   offerVars, productVars>>

\* the response interceptor of the axios instance
AxiosDone ==
    /\ mounted \in {"auth", "provider"}
    /\ \E r \in inflight : \E status \in Outcomes :
          /\ r.via = "axios"
          /\ inflight' = inflight \ {r}
          /\ localStorage' = IF status = 401
                             THEN removeItem(localStorage, "auth_token")
                             ELSE localStorage
          /\ thrown' = IF status = 200 THEN {} ELSE {AxiosError(status)}
    /\ UNCHANGED <<user, authToken>>
    /\ UNCHANGED <<mounted, timerVars, apiVars, gatewayVars, providerVars,
                   offerVars, productVars>>

\* ======================================================================
\* The AuthProvider of part_006, whose calls go through the axios instance
\* ======================================================================
\* sessionStorage.getItem(key) || localStorage.getItem(key)
StoredItem(session, local, key) == IF session[key] # {} THEN session[key] ELSE local[key]

\* checkAuthStatus: the merchant restored at mount, if a token and the
\* merchant data are stored
checkAuthStatus(session, local) ==
    IF StoredItem(session, local, "merchant_token") # {}
       /\ StoredItem(session, local, "merchant_data") # {}
    THEN StoredItem(session, local, "merchant_data")
    ELSE {}

\* the removeItem calls of clearAuthData, on either storage
clearAuthData(storage) ==
    [k \in DOMAIN storage |-> IF k \in SessionKeys THEN {} ELSE storage[k]]

\* what the response interceptor does to localStorage before it passes an
\* answer on
ResponseInterceptor(storage, status) ==
    IF status = 401 THEN removeItem(storage, "auth_token") ELSE storage

\* new Error(errorMessage) thrown by login
LoginError == [message |-> "Login failed. Please try again.", status |-> {}]

\* the two setItem calls of login
LoginStores(session, local, token, data) ==
    [session |-> [session EXCEPT !["merchant_token"] = {token}, !["merchant_data"] = {data}],
     local |-> local]

\* login(accessToken) up to the await of authApi.googleAuth
ProviderLogin ==
    /\ mounted = "provider"
    /\ ~isAuthenticated
    /\ "login" \notin pending
    /\ pending' = pending \cup {"login"}
    /\ authLoading' = TRUE
    /\ authError' = {}
    /\ UNCHANGED <<merchant, isAuthenticated, sessionStorage, logoutResult>>
    /\ UNCHANGED <<mounted, timerVars, apiVars, gatewayVars, authVars,
                   offerVars, productVars>>

\* login after the await: the answer holds a token and the merchant, or the
\* call has failed
ProviderLoginDone ==
    /\ mounted = "provider"
    /\ "login" \in pending
    /\ pending' = pending \ {"login"}
    /\ \E status \in Outcomes :
          IF status = 200
          THEN \E token \in Tokens : \E data \in MerchantIds :
                  /\ sessionStorage' =
                        LoginStores(sessionStorage, localStorage, token, data).session
                  /\ localStorage' =
                        LoginStores(sessionStorage, localStorage, token, data).local
                  /\ merchant' = {data}
                  /\ isAuthenticated' = TRUE
                  /\ authError' = authError
                  /\ thrown' = {}
          ELSE /\ localStorage' = ResponseInterceptor(localStorage, status)
               /\ authError' = {LoginError.message}
               /\ thrown' = {LoginError}
               /\ UNCHANGED <<sessionStorage, merchant, isAuthenticated>>
    /\ authLoading' = FALSE
    /\ UNCHANGED logoutResult
    /\ UNCHANGED <<user, authToken, inflight>>
    /\ UNCHANGED <<mounted, timerVars, apiVars, gatewayVars,
                   offerVars, productVars>>

\* logout() up to the await of authApi.logout
ProviderLogout ==
    /\ mounted = "provider"
    /\ isAuthenticated
    /\ "logout" \notin pending
    /\ pending' = pending \cup {"logout"}
    /\ authLoading' = TRUE
    /\ authError' = {}
    /\ UNCHANGED <<merchant, isAuthenticated, sessionStorage, logoutResult>>
    /\ UNCHANGED <<mounted, timerVars, apiVars, gatewayVars, authVars,
                   offerVars, productVars>>

\* variant: the catch block passes the error on, so that logout stops there
LogoutContinuesOnSuccess(status) == status = 200

\* whether logout goes on after the try statement: the catch block only
\* logs the error ("Continue with logout even if API fails")
LogoutContinues(status) == TRUE

\* logout() after the await: clearAuthData(), setLoading(false)
ProviderLogoutDone ==
    /\ mounted = "provider"
    /\ "logout" \in pending
    /\ pending' = pending \ {"logout"}
    /\ \E status \in Outcomes :
          /\ logoutResult' = {status}
          /\ IF LogoutContinues(status)
             THEN /\ sessionStorage' = clearAuthData(sessionStorage)
                  /\ localStorage' =
                        clearAuthData(ResponseInterceptor(localStorage, status))
                  /\ merchant' = {}
                  /\ isAuthenticated' = FALSE
                  /\ authError' = {}
                  /\ authLoading' = FALSE
                  /\ thrown' = thrown
             ELSE /\ localStorage' = ResponseInterceptor(localStorage, status)
                  /\ thrown' = {AxiosError(status)}
                  /\ UNCHANGED <<sessionStorage, merchant, isAuthenticated, authError,
                                 authLoading>>
    /\ UNCHANGED <<user, authToken, inflight>>
    /\ UNCHANGED <<mounted, timerVars, apiVars, gatewayVars,
                   offerVars, productVars>>

\* ======================================================================
\* The OfferDialog (first component of OfferDialog.tsx)
\* ======================================================================
\* what the merchant may enter
NameInputs == {"", "  ", "Sale"}
TypeInputs == {"percentage", "fixed"}
DiscountInputs == {0, 50, 150}
DateInputs == {"", "2024-01-16", "2024-01-22"}
LevelInputs == {"product", "merchant"}

\* new Date(str).getTime() for the value of a date input: {} is NaN, the
\* time of an Invalid Date
ParseDate(str) ==
    CASE str = "2024-01-16" -> {MockDayNoon + 12 * 60 * 60 * 1000}
      [] str = "2024-01-22" -> {MockDayNoon + (6 * 24 + 12) * 60 * 60 * 1000}
      [] OTHER -> {}

\* new Date(a) >= new Date(b): false when either is an Invalid Date
DateGE(a, b) ==
    /\ ParseDate(a) # {}
    /\ ParseDate(b) # {}
    /\ The(ParseDate(a)) >= The(ParseDate(b))

\* the form as the reset for a new offer leaves it
NewOfferForm ==
    [name |-> "", type |-> "percentage", discount_value |-> 0, level |-> "product",
     valid_from |-> "2024-01-16", valid_till |-> "2024-01-22", product_ids |-> << >>]

ValidationToast(description) ==
    [title |-> "Validation Error", description |-> description, variant |-> "destructive"]

OfferCreatedToast ==
    [title |-> "Offer Created", description |-> "Offer has been created successfully.",
     variant |-> "default"]

\* the checks of handleSubmit, in their order: {} or {the message of the
\* first one that fails}
validationError(fd) ==
    IF trim(Chars(fd.name)) = << >> THEN {"Offer name is required."}
    ELSE IF fd.discount_value <= 0 THEN {"Discount value must be greater than 0."}
    ELSE IF fd.type = "percentage" /\ fd.discount_value > 100
         THEN {"Percentage discount cannot exceed 100%."}
    ELSE IF DateGE(fd.valid_from, fd.valid_till)
         THEN {"Valid till date must be after valid from date."}
    ELSE IF fd.level = "product" /\ Len(fd.product_ids) = 0
         THEN {"Please select at least one product for product-level offers."}
    ELSE {}

\* offerData: {} when toISOString() throws a RangeError on an Invalid Date
offerData(fd) ==
    IF ParseDate(fd.valid_from) = {} \/ ParseDate(fd.valid_till) = {} THEN {}
    ELSE {[fd EXCEPT !.valid_from = toISOString(The(ParseDate(fd.valid_from))),
                     !.valid_till = toISOString(The(ParseDate(fd.valid_till)))]}

\* the onChange handlers of the form
SetField(field, values) ==
    /\ mounted = "offer"
    /\ isOpen
    /\ ~offerLoading
    /\ \E v \in values \ {formData[field]} : formData' = [formData EXCEPT ![field] = v]
    /\ UNCHANGED <<offerLoading, isOpen, offerToast, onSubmitCall, submitted>>
    /\ UNCHANGED <<mounted, timerVars, apiVars, gatewayVars, authVars, providerVars,
                   productVars>>

SetName == SetField("name", NameInputs)
SetType == SetField("type", TypeInputs)
SetDiscountValue == SetField("discount_value", DiscountInputs)
SetValidFrom == SetField("valid_from", DateInputs)
SetValidTill == SetField("valid_till", DateInputs)
SetLevel == SetField("level", LevelInputs)
ToggleProduct == SetField("product_ids", {<< >>, <<"p1">>})

\* handleSubmit up to the await of onSubmit; the submit button is disabled
\* while loading
HandleSubmit ==
    /\ mounted = "offer"
    /\ isOpen
    /\ ~offerLoading
    /\ IF validationError(formData) # {}
       THEN /\ offerToast' = ValidationToast(The(validationError(formData)))
            /\ UNCHANGED <<offerLoading, onSubmitCall, submitted>>
       ELSE IF offerData(formData) = {}
       THEN \* setLoading(true), RangeError, catch, finally setLoading(false)
            /\ offerToast' = ErrorToast
            /\ offerLoading' = FALSE
            /\ UNCHANGED <<onSubmitCall, submitted>>
       ELSE /\ offerLoading' = TRUE
            /\ onSubmitCall' = offerData(formData)
            /\ submitted' = offerData(formData)
            /\ offerToast' = offerToast
    /\ UNCHANGED <<formData, isOpen>>
    /\ UNCHANGED <<mounted, timerVars, apiVars, gatewayVars, authVars, providerVars,
                   productVars>>

\* handleSubmit after the await: onSubmit has resolved or rejected
HandleSubmitDone ==
    /\ mounted = "offer"
    /\ onSubmitCall # {}
    /\ onSubmitCall' = {}
    /\ \/ isOpen' = FALSE /\ offerToast' = OfferCreatedToast
       \/ isOpen' = isOpen /\ offerToast' = ErrorToast
    /\ offerLoading' = FALSE
    /\ UNCHANGED <<formData, submitted>>
    /\ UNCHANGED <<mounted, timerVars, apiVars, gatewayVars, authVars, providerVars,
                   productVars>>

OfferParked ==
    /\ formData = NewOfferForm
    /\ offerLoading = FALSE
    /\ isOpen = FALSE
    /\ offerToast = NoToast
    /\ onSubmitCall = {}
    /\ submitted = {}

\* the dialog opened for a new offer
InitOffer ==
    /\ formData = NewOfferForm
    /\ offerLoading = FALSE
    /\ isOpen = TRUE
    /\ offerToast = NoToast
    /\ onSubmitCall = {}
    /\ submitted = {}

\* ======================================================================
\* The product list (ProductManagement.tsx, and part_001 with the products
\* of the gateway)
\* ======================================================================
Listings == {"ProductManagement", "part_001"}

\* a product as each of the two components holds it
Product(l, name, brand, category, price, stock) ==
    IF l = "ProductManagement"
    THEN [name |-> name, brand |-> brand, category |-> category,
          sellingPrice |-> price, quantity |-> stock]
    ELSE [name |-> name, brand |-> brand, category |-> category,
          variants |-> <<[selling_price |-> price, stock_quantity |-> stock]>>]

\* the product lists of a run
ProductLists(l) ==
    { << Product(l, "Cola", "Coca", "beverages", p1, q1),
         Product(l, "Bread", "Acme", "snacks", p2, 10),
         Product(l, "Chips", "Acme", "snacks", 20, 50) >> :
         p1 \in {20, 35}, p2 \in {20, 35}, q1 \in {0, 50} }

SortOptions ==
    {"name-az", "name-za", "price-low", "price-high", "quantity-high", "quantity-low"}
QueryChoices == {"", "co"}
CategoryChoices == {"all", "snacks", "beverages"}

\* the selling price and the stock the comparator reads
SellingPrice(l, p) ==
    IF l = "ProductManagement" THEN p.sellingPrice
    ELSE IF p.variants = << >> THEN 0 ELSE p.variants[1].selling_price

Stock(l, p) ==
    IF l = "ProductManagement" THEN p.quantity
    ELSE IF p.variants = << >> THEN 0 ELSE p.variants[1].stock_quantity

\* the place of a letter in the alphabet
Alphabet ==
    <<"a", "b", "c", "d", "e", "f", "g", "h", "i", "j", "k", "l", "m",
      "n", "o", "p", "q", "r", "s", "t", "u", "v", "w", "x", "y", "z">>
LetterRank(c) == CHOOSE k \in DOMAIN Alphabet : Alphabet[k] = c

\* String.prototype.localeCompare on names that differ in their letters:
\* negative, zero or positive as a comes before, with or after b
RECURSIVE CompareLetters(_, _)
CompareLetters(a, b) ==
    IF a = << >> /\ b = << >> THEN 0
    ELSE IF a = << >> THEN 0 - 1
    ELSE IF b = << >> THEN 1
    ELSE IF LetterRank(Head(a)) # LetterRank(Head(b))
         THEN LetterRank(Head(a)) - LetterRank(Head(b))
         ELSE CompareLetters(Tail(a), Tail(b))

localeCompare(a, b) == CompareLetters(toLowerCase(Chars(a)), toLowerCase(Chars(b)))

\* the comparator passed to sort()
Compare(l, sb, a, b) ==
    IF l = "ProductManagement"
    THEN CASE sb = "price-low" -> b.sellingPrice - a.sellingPrice
           [] sb = "price-high" -> a.sellingPrice - b.sellingPrice
           [] sb = "quantity-high" -> a.quantity - b.quantity
           [] sb = "quantity-low" -> b.quantity - a.quantity
           [] sb = "name-az" -> localeCompare(b.name, a.name)
           [] sb = "name-za" -> localeCompare(a.name, b.name)
           [] OTHER -> localeCompare(b.name, a.name)
    ELSE CASE sb = "price-low" -> SellingPrice(l, a) - SellingPrice(l, b)
           [] sb = "price-high" -> SellingPrice(l, b) - SellingPrice(l, a)
           [] sb = "quantity-high" -> Stock(l, b) - Stock(l, a)
           [] sb = "quantity-low" -> Stock(l, a) - Stock(l, b)
           [] sb = "name-az" -> localeCompare(a.name, b.name)
           [] sb = "name-za" -> localeCompare(b.name, a.name)
           [] OTHER -> localeCompare(a.name, b.name)

\* Array.prototype.sort with that comparator: a stable sort
RECURSIVE InsertBy(_, _, _, _)
InsertBy(l, sb, sorted, p) ==
    IF sorted = << >> THEN <<p>>
    ELSE IF Compare(l, sb, Head(sorted), p) > 0
         THEN <<p>> \o sorted
         ELSE <<Head(sorted)>> \o InsertBy(l, sb, Tail(sorted), p)

RECURSIVE SortProducts(_, _, _)
SortProducts(l, sb, ps) ==
    IF ps = << >> THEN << >>
    ELSE InsertBy(l, sb, SortProducts(l, sb, SubSeq(ps, 1, Len(ps) - 1)), ps[Len(ps)])

\* the test of the search and of the category filter
PassesFilters(p, q, category) ==
    /\ q # "" =>
          \/ includes(toLowerCase(Chars(p.name)), toLowerCase(Chars(q)))
          \/ includes(toLowerCase(Chars(p.brand)), toLowerCase(Chars(q)))
    /\ category # "all" => p.category = category

\* `filtered` before the sort
FilterProducts(ps, q, category) ==
    LET Keep(p) == PassesFilters(p, q, category)
    IN  SelectSeq(ps, Keep)

\* setFilteredProducts(filtered), after filtered.sort(...)
ListProducts(l, ps, q, category, sb) == SortProducts(l, sb, FilterProducts(ps, q, category))

\* the products array after the effect: with no search text and the
\* category 'all' `filtered` is the products array itself, sorted in place
ProductsAfterEffect(l, ps, q, category, sb) ==
    IF q = "" /\ category = "all" THEN SortProducts(l, sb, ps) ELSE ps

\* one of the three controls is changed; the filter and sort effect runs
ProductEffect(q, category, sb) ==
    /\ mounted = "products"
    /\ productQuery' = q
    /\ selectedCategory' = category
    /\ sortBy' = sb
    /\ filteredProducts' = ListProducts(listing, products, q, category, sb)
    /\ products' = ProductsAfterEffect(listing, products, q, category, sb)
    /\ UNCHANGED listing
    /\ UNCHANGED <<mounted, timerVars, apiVars, gatewayVars, authVars, providerVars,
                   offerVars>>

SetSortBy == \E sb \in SortOptions \ {sortBy} : ProductEffect(productQuery, selectedCategory, sb)

SetProductQuery ==
    \E q \in QueryChoices \ {productQuery} : ProductEffect(q, selectedCategory, sortBy)

SetSelectedCategory ==
    \E category \in CategoryChoices \ {selectedCategory} :
        ProductEffect(productQuery, category, sortBy)

ProductsParked ==
    /\ listing = "ProductManagement"
    /\ products = << >>
    /\ filteredProducts = << >>
    /\ productQuery = ""
    /\ selectedCategory = "all"
    /\ sortBy = "name"

\* the component after the products were set and the effect has run
InitProducts ==
    /\ listing \in Listings
    /\ productQuery = ""
    /\ selectedCategory = "all"
    /\ sortBy = "name"
    /\ \E ps \in ProductLists(listing) :
          /\ products = ProductsAfterEffect(listing, ps, "", "all", "name")
          /\ filteredProducts = ListProducts(listing, ps, "", "all", "name")

\* ======================================================================
\* Specifications
\* ======================================================================
TimerParked ==
    /\ orders = << >>
    /\ selectedOrder = {}
    /\ now = 0
    /\ lastTick = 0
    /\ lastToast = NoToast
    /\ expiredToasts = << >>
    /\ decidedAt = << >>
    /\ displayed = FALSE
    /\ intervals = 0

ApiParked ==
    /\ apiOrders = << >>
    /\ apiLoading = FALSE
    /\ apiSelected = {}
    /\ apiToast = NoToast
    /\ hookError = {}
    /\ settled = {}
    /\ calls = 0
    /\ statusFilter = "all"
    /\ searchQuery = ""
    /\ hookFilters = {}
    /\ fetchCount = 0
    /\ dropped = << >>
    /\ fetches = {}
    /\ requests = {}
    /\ server = << >>
    /\ acked = {}

AuthParked ==
    /\ user = {}
    /\ authToken = {}
    /\ localStorage = [k \in StorageKeys |-> {}]
    /\ inflight = {}
    /\ thrown = {}

ProviderParked ==
    /\ merchant = {}
    /\ isAuthenticated = FALSE
    /\ authLoading = FALSE
    /\ authError = {}
    /\ sessionStorage = [k \in SessionKeys |-> {}]
    /\ pending = {}
    /\ logoutResult = {}

\* the AuthProvider of part_006 after checkAuthStatus: sessionStorage is
\* empty or holds what a login earlier in the same tab stored
InitProvider ==
    /\ user = {}
    /\ authToken = {}
    /\ localStorage = [k \in StorageKeys |-> {}]
    /\ inflight = {}
    /\ thrown = {}
    /\ sessionStorage \in {[k \in SessionKeys |-> {}],
                            [k \in SessionKeys |->
                                IF k = "merchant_token" THEN {"t1"} ELSE {"m1"}]}
    /\ merchant = checkAuthStatus(sessionStorage, localStorage)
    /\ isAuthenticated = (merchant # {})
    /\ authLoading = FALSE
    /\ authError = {}
    /\ pending = {}
    /\ logoutResult = {}

\* the AuthProvider after its mount effect: the module variable is empty,
\* localStorage holds what an earlier visit left, the user is the stored one
InitAuth ==
    /\ authToken = {}
    /\ localStorage \in [StorageKeys -> {{}, {"t1"}, {"merchant-123"}, {"merchant-google"}}]
    /\ localStorage["auth_token"] \subseteq Tokens
    /\ localStorage["merchant_user"] \subseteq UserIds
    /\ localStorage["merchant_token"] = {}
    /\ localStorage["merchant_data"] = {}
    /\ user = localStorage["merchant_user"]
    /\ inflight = {}
    /\ thrown = {}

\* the component, or the hook, right after its first render: the order list
\* has been requested
InitApi(filters, servers) ==
    /\ apiOrders = << >>
    /\ apiLoading = TRUE
    /\ apiSelected = {}
    /\ apiToast = NoToast
    /\ hookError = {}
    /\ settled = {}
    /\ calls = 0
    /\ statusFilter = "all"
    /\ searchQuery = ""
    /\ hookFilters \in filters
    /\ fetchCount = 1
    /\ dropped = << >>
    /\ fetches = {[fid |-> 1, filter |-> hookFilters, state |-> "sent", payload |-> << >>]}
    /\ requests = {}
    /\ server \in servers
    /\ acked = {}

Init ==
    \/ /\ mounted = "countdown"
       /\ InitTimer({0, LateStartMs})
       /\ ApiParked
       /\ AuthParked
       /\ ProviderParked
       /\ OfferParked
       /\ ProductsParked
    \/ /\ mounted = "api"
       /\ TimerParked
       /\ InitApi({{}}, ServerStates)
       /\ AuthParked
       /\ ProviderParked
       /\ OfferParked
       /\ ProductsParked
    \/ /\ mounted = "hook"
       /\ TimerParked
       /\ InitApi(CallerFilters, HookServerStates)
       /\ AuthParked
       /\ ProviderParked
       /\ OfferParked
       /\ ProductsParked
    \/ /\ mounted = "auth"
       /\ TimerParked
       /\ ApiParked
       /\ InitAuth
       /\ ProviderParked
       /\ OfferParked
       /\ ProductsParked
    \/ /\ mounted = "provider"
       /\ TimerParked
       /\ ApiParked
       /\ InitProvider
       /\ OfferParked
       /\ ProductsParked

Next ==
    \/ Advance
    \/ Tick
    \/ ViewDetails
    \/ CloseDetails
    \/ CardUpdate
    \/ DialogUpdate
    \/ GatewayGetOrders
    \/ GatewayPutStatus
    \/ LoadOrdersDone
    \/ ApiCardUpdate
    \/ ApiDialogUpdate
    \/ ApiViewDetails
    \/ ApiCloseDetails
    \/ SetStatusFilter
    \/ SetSearchQuery
    \/ HandleStatusUpdateDone
    \/ HookFetchDone
    \/ HookRefetch
    \/ HookSetFilters
    \/ HookUpdateOrderStatus
    \/ HookUpdateDone
    \/ Login
    \/ LoginWithGoogle
    \/ Logout
    \/ RequestSend
    \/ RequestDone
    \/ AxiosSend
    \/ AxiosDone
    \/ ProviderLogin
    \/ ProviderLoginDone
    \/ ProviderLogout
    \/ ProviderLogoutDone

Spec == Init /\ [][Next]_vars

\* ------------------------------------------- the countdown alone, in full
InitCountdown ==
    /\ mounted = "countdown"
    /\ InitTimer({0})
    /\ ApiParked
    /\ AuthParked
    /\ ProviderParked
    /\ OfferParked
    /\ ProductsParked

AdvanceCountdown == Pass(CountdownRunMs)

NextCountdown ==
    \/ AdvanceCountdown
    \/ Tick

SpecCountdown == InitCountdown /\ [][NextCountdown]_vars

\* ------------------- the countdown component across unmount and remount
\* variant: the countdown effect returns no cleanup
EffectCleanupNone(n) == n

\* return () => clearInterval(interval): the interval of this mount is cleared
EffectCleanup(n) == n - 1

\* The dashboard renders the component inside the "orders" tab; leaving the
\* tab unmounts it and coming back mounts it again: the state starts empty,
\* the mock initialisation effect runs, a new interval is started.
Remount ==
    /\ mounted = "countdown"
    /\ displayed
    /\ orders' = mockOrders(now)
    /\ selectedOrder' = {}
    /\ lastTick' = now
    /\ expiredToasts' = [i \in 1..3 |-> 0]
    /\ decidedAt' = [i \in 1..3 |-> {}]
    /\ intervals' = EffectCleanup(intervals) + 1
    /\ UNCHANGED <<now, lastToast, displayed>>
    /\ UNCHANGED <<mounted, apiVars, gatewayVars, authVars, providerVars,
                   offerVars, productVars>>

\* the tab is left: the component is unmounted, the cleanups of its effects
\* run; the state it held is discarded (it is kept here as it was, to see
\* whether anything still writes to it)
Unmount ==
    /\ mounted = "countdown"
    /\ displayed
    /\ displayed' = FALSE
    /\ intervals' = EffectCleanup(intervals)
    /\ UNCHANGED <<orders, selectedOrder, now, lastTick, lastToast, expiredToasts, decidedAt>>
    /\ UNCHANGED <<mounted, apiVars, gatewayVars, authVars, providerVars,
                   offerVars, productVars>>

\* the tab is opened again: useState initial values, the mock initialisation
\* effect, and the countdown effect, which sets a new interval
Mount ==
    /\ mounted = "countdown"
    /\ ~displayed
    /\ displayed' = TRUE
    /\ orders' = mockOrders(now)
    /\ selectedOrder' = {}
    /\ lastTick' = now
    /\ expiredToasts' = [i \in 1..3 |-> 0]
    /\ decidedAt' = [i \in 1..3 |-> {}]
    /\ intervals' = intervals + 1
    /\ UNCHANGED <<now, lastToast>>
    /\ UNCHANGED <<mounted, apiVars, gatewayVars, authVars, providerVars,
                   offerVars, productVars>>

InitRemount ==
    /\ mounted = "countdown"
    /\ InitTimer({0, LateStartMs})
    /\ ApiParked
    /\ AuthParked
    /\ ProviderParked
    /\ OfferParked
    /\ ProductsParked

NextRemount ==
    \/ Advance
    \/ Tick
    \/ ViewDetails
    \/ CloseDetails
    \/ CardUpdate
    \/ DialogUpdate
    \/ Remount
    \/ Unmount
    \/ Mount

SpecRemount == InitRemount /\ [][NextRemount]_vars

\* ------------------------------------------------------ the offer dialog
InitOfferDialog ==
    /\ mounted = "offer"
    /\ TimerParked
    /\ ApiParked
    /\ AuthParked
    /\ ProviderParked
    /\ InitOffer
    /\ ProductsParked

NextOffer ==
    \/ SetName
    \/ SetType
    \/ SetDiscountValue
    \/ SetValidFrom
    \/ SetValidTill
    \/ SetLevel
    \/ ToggleProduct
    \/ HandleSubmit
    \/ HandleSubmitDone

SpecOffer == InitOfferDialog /\ [][NextOffer]_vars

\* ------------------------------------------------------ the product list
InitProductList ==
    /\ mounted = "products"
    /\ TimerParked
    /\ ApiParked
    /\ AuthParked
    /\ ProviderParked
    /\ OfferParked
    /\ InitProducts

NextProducts ==
    \/ SetSortBy
    \/ SetProductQuery
    \/ SetSelectedCategory

SpecProducts == InitProductList /\ [][NextProducts]_vars

\* ======================================================================
\* Properties
\* ======================================================================
Terminal == {"declined", "delivered"}

TableTransitions ==
    { <<"pending", "accepted">>, <<"pending", "declined">>,
      <<"accepted", "in-delivery">>, <<"in-delivery", "delivered">> }

\* C1: in every reachable state each order has offerExpiry and timeRemaining
\* present if and only if its status is pending.
TimerFieldsIffPending ==
    \A i \in DOMAIN orders :
        /\ orders[i].status = "pending" =>
              orders[i].offerExpiry # {} /\ orders[i].timeRemaining # {}
        /\ orders[i].status # "pending" =>
              orders[i].offerExpiry = {} /\ orders[i].timeRemaining = {}

\* C2: an order in status declined or delivered keeps its status in every
\* step; an auto-declined order never becomes accepted.
TerminalStatesAreSinks ==
    [][\A i \in DOMAIN orders :
          orders[i].status \in Terminal => orders'[i].status = orders[i].status]_vars

\* C3: every change of an order's status is one of pending->accepted,
\* pending->declined, accepted->in-delivery, in-delivery->delivered, and a
\* step that is none of them changes no field of the order.
OnlyTableTransitions ==
    [][\A i \in DOMAIN orders :
          \/ <<orders[i].status, orders'[i].status>> \in TableTransitions
          \/ [orders'[i] EXCEPT !.timeRemaining = orders[i].timeRemaining] = orders[i]]_vars

\* C4: the tick that finds a pending order's offerExpiry passed declines the
\* order and leaves it without offerExpiry and without timeRemaining.
ExpiryTickClearsTimer ==
    [][Tick =>
          \A i \in DOMAIN orders :
              (/\ orders[i].status = "pending"
               /\ orders[i].offerExpiry # {}
               /\ getTime(The(orders[i].offerExpiry)) <= now)
              => /\ orders'[i].status = "declined"
                 /\ orders'[i].offerExpiry = {}
                 /\ orders'[i].timeRemaining = {}]_vars

\* C5: right after a tick every order still pending has timeRemaining =
\* max(0, floor((offerExpiry - now) / 1 s)); ORD-001, loaded with offerExpiry
\* = T0 + 120 s, shows max(0, 120 - k) after the tick k seconds after load;
\* and no step increases a timeRemaining.
IsFloorSeconds(r, ms) ==
    \/ ms < 1000 /\ r = 0
    \/ ms >= 1000 /\ r * 1000 <= ms /\ ms < (r + 1) * 1000

CountdownValue ==
    [][/\ Tick =>
            /\ \A i \in DOMAIN orders :
                  orders'[i].status = "pending" =>
                      /\ orders'[i].timeRemaining # {}
                      /\ IsFloorSeconds(The(orders'[i].timeRemaining),
                                        getTime(The(orders'[i].offerExpiry)) - now)
            /\ \A k \in 0..(CountdownRunMs \div 1000) :
                  now = k * 1000 =>
                      orders'[1].timeRemaining = {IF k <= 120 THEN 120 - k ELSE 0}
       /\ \A i \in DOMAIN orders :
             (orders[i].timeRemaining # {} /\ orders'[i].timeRemaining # {})
             => The(orders'[i].timeRemaining) <= The(orders[i].timeRemaining)]_vars

CountdownValueWitness ==
    /\ mounted = "countdown"
    /\ now = 60000
    /\ lastTick = now
    /\ orders[1].status = "pending"
    /\ orders[1].timeRemaining = {60}

\* C6: a step that takes an order from pending to accepted at time T sets
\* estimatedDelivery to T + 90 minutes and clears offerExpiry and timeRemaining.
AcceptSetsEta ==
    [][\A i \in DOMAIN orders :
          (orders[i].status = "pending" /\ orders'[i].status = "accepted")
          => /\ orders'[i].estimatedDelivery # {}
             /\ getTime(The(orders'[i].estimatedDelivery)) = now + 5400000
             /\ orders'[i].offerExpiry = {}
             /\ orders'[i].timeRemaining = {}]_vars

AcceptSetsEtaWitness ==
    /\ mounted = "countdown"
    /\ orders[1].status = "accepted"
    /\ expiredToasts[1] = 0
    /\ orders[1].estimatedDelivery = {toISOString(now + 5400000)}

\* C7: estimatedDelivery changes only in a step that takes the order from
\* pending to accepted, and only when it was not set before.
EtaWrittenOnce ==
    [][\A i \in DOMAIN orders :
          orders'[i].estimatedDelivery # orders[i].estimatedDelivery
          => /\ orders[i].status = "pending"
             /\ orders'[i].status = "accepted"
             /\ orders[i].estimatedDelivery = {}]_vars

\* C9 as stated: when the merchant's accept or decline and the tick that finds
\* the countdown run out fall in the same second, the callback that ran last
\* wrote the stored status; so after such a tick the order is declined and
\* its expiry has been notified.
RanOut(i) ==
    /\ mockOrders(0)[i].offerExpiry # {}
    /\ getTime(The(mockOrders(0)[i].offerExpiry)) - now < 1000

LastCallbackWins ==
    [][Tick =>
          \A i \in DOMAIN orders :
              (/\ decidedAt[i] # {}
               /\ now - The(decidedAt[i]) < 1000
               /\ RanOut(i))
              => /\ orders'[i].status = "declined"
                 /\ expiredToasts'[i] = expiredToasts[i] + 1]_vars

\* C9 amended: the merchant's update always commits, also on an order the
\* countdown has already declined (then the status the merchant chose is
\* stored and announced); a tick changes no order that is not pending, so
\* an expiry never commits after an accept or a decline.
RaceOutcome ==
    [][/\ Tick =>
            \A i \in DOMAIN orders :
                orders[i].status # "pending" =>
                    orders'[i] = orders[i] /\ expiredToasts'[i] = expiredToasts[i]
       /\ DialogUpdate =>
            \A i \in DOMAIN orders :
                orders[i].id = The(selectedOrder).id =>
                    /\ orders'[i].status \in StatusButtons(The(selectedOrder).status)
                    /\ lastToast' = UpdateToast(orders'[i].status)]_vars

RaceOutcomeWitness ==
    /\ mounted = "countdown"
    /\ orders[1].status = "accepted"
    /\ expiredToasts[1] = 1
    /\ decidedAt[1] # {}

\* C8 as stated: in every holder of the order list, a status shown locally
\* was acknowledged by the gateway before it was stored, and a failed update
\* request changes no stored order and is surfaced.  (A step that stores the
\* answer to a request for the order list is a load, not an update.)
AckedBeforeStored(os1, os2) ==
    (\A f \in fetches : f \in fetches') =>
        \A i \in DOMAIN os1 : \A j \in DOMAIN os2 :
            (os1[i].order_id = os2[j].order_id /\ os1[i].status # os2[j].status)
            => <<os2[j].order_id, os2[j].status>> \in acked

FailureSurfaced ==
    \A r \in requests :
        (r.state = "failed" /\ r \notin requests')
        => /\ apiOrders' = apiOrders
           /\ mounted = "api" => apiToast' = ErrorToast
           /\ mounted = "hook" =>
                 /\ hookError' # {}
                 /\ settled' # {}
                 /\ The(settled').result = "rejected"

UnknownOrderRejected ==
    [][\A r \in requests :
          (r.absent /\ r.state # "sent" /\ r \notin requests')
          => /\ apiOrders' = apiOrders
             /\ mounted = "hook" => The(settled').result = "rejected"
             /\ mounted = "api" => apiToast' = ErrorToast]_vars

\* C11: a step in which the merchant takes an order from pending to declined
\* (a Decline button on a card or in the details dialog) leaves the order
\* without offerExpiry, without timeRemaining and without estimatedDelivery.
MerchantDeclineClearsTimer ==
    [][(CardUpdate \/ DialogUpdate) =>
          \A i \in DOMAIN orders :
              (orders[i].status = "pending" /\ orders'[i].status = "declined")
              => /\ orders'[i].offerExpiry = {}
                 /\ orders'[i].timeRemaining = {}
                 /\ orders'[i].estimatedDelivery = {}]_vars

MerchantDeclineClearsTimerWitness ==
    /\ mounted = "countdown"
    /\ orders[1].status = "declined"
    /\ expiredToasts[1] = 0
    /\ decidedAt[1] = {now}
    /\ orders[1].offerExpiry = {}
    /\ orders[1].estimatedDelivery = {}

\* C12: a tick leaves every order whose status is not pending exactly as it
\* was: same status, no timeRemaining added, every other field equal.
TickLeavesOthersUntouched ==
    [][Tick =>
          \A i \in DOMAIN orders :
              orders[i].status # "pending" => orders'[i] = orders[i]]_vars

\* a tick has run on the accepted and in-delivery mock orders and on the
\* order the countdown declined earlier
TickLeavesOthersUntouchedWitness ==
    /\ mounted = "countdown"
    /\ now = LateStartMs + 5000
    /\ lastTick = now
    /\ orders[1].status = "declined"
    /\ orders[1].timeRemaining = {0}
    /\ orders[2] = mockOrders(0)[2]
    /\ orders[3] = mockOrders(0)[3]

\* C13: the tick that declines an order raises the "Order Expired" toast for
\* it once, no other step raises one, no order gets a second one on a later
\* tick; a decline by the merchant raises the "Order Status Updated" toast
\* instead.
ExpiryNotifiedOnce ==
    [][/\ \A i \in DOMAIN orders :
             /\ expiredToasts'[i] =
                   IF Tick /\ orders[i].status = "pending" /\ orders'[i].status = "declined"
                   THEN expiredToasts[i] + 1 ELSE expiredToasts[i]
             /\ expiredToasts'[i] <= 1
             /\ expiredToasts'[i] > expiredToasts[i] => lastToast' = ExpiredToast(orders[i])
       /\ (CardUpdate \/ DialogUpdate) =>
             /\ lastToast'.title = "Order Status Updated"
             /\ lastToast'.title # ExpiredToast(orders[1]).title
             /\ \A i \in DOMAIN orders :
                   (orders[i].status = "pending" /\ orders'[i].status = "declined")
                   => lastToast' = UpdateToast("declined")]_vars

\* the countdown declined ORD-001, the toast is on screen, and a later tick
\* has run without another one
ExpiryNotifiedOnceWitness ==
    /\ mounted = "countdown"
    /\ now = LateStartMs + 5000
    /\ lastTick = now
    /\ orders[1].status = "declined"
    /\ expiredToasts[1] = 1
    /\ lastToast = ExpiredToast(orders[1])

\* order.offer_expiry: undefined where the object has no such property
offer_expiry(o) == IF "offer_expiry" \in DOMAIN o THEN o.offer_expiry ELSE {}

\* C14: a load replaces the whole list by the orders supplied, and after it
\* every pending order has an offer_expiry (the one supplied, or load time +
\* 2 minutes); the pending mock order is loaded with mount time + 2 minutes.
LoadBackfillsExpiry ==
    [][/\ \A i \in DOMAIN orders :
             (now = 0 /\ orders[i].status = "pending")
             => orders[i].offerExpiry = {toISOString(now + 120000)}
       /\ \A f \in fetches :
             (f.state = "ok" /\ f \notin fetches')
             => /\ Len(apiOrders') = Len(f.payload)
                /\ \A i \in DOMAIN f.payload : \E j \in DOMAIN apiOrders' :
                      apiOrders'[j].order_id = f.payload[i].order_id
                /\ \A j \in DOMAIN apiOrders' :
                      apiOrders'[j].status = "pending" => offer_expiry(apiOrders'[j]) # {}]_vars

\* C15: a second load of the same orders changes no offer_expiry that is
\* already present.
ReloadKeepsExpiry ==
    [][Remount =>
          \A i \in DOMAIN orders :
              (orders[i].offerExpiry # {} /\ orders[i].id = orders'[i].id)
              => orders'[i].offerExpiry = orders[i].offerExpiry]_vars

\* C16: computing the filtered list changes no stored order and not their
\* sequence: a change of the status filter or of the search text leaves the
\* list of orders as it is, after a load the list is the payload as supplied,
\* after an acknowledged update it is the list with that one order replaced.
FilterIsPure ==
    [][/\ (SetStatusFilter \/ SetSearchQuery) => apiOrders' = apiOrders
       /\ \A f \in fetches :
             (mounted = "api" /\ f.state = "ok" /\ f \notin fetches')
             => apiOrders' = f.payload
       /\ \A r \in requests :
             (mounted = "api" /\ r.state = "ok" /\ r \notin requests')
             => apiOrders' = ReplaceOrder(apiOrders, r.orderId, The(r.response))]_vars

\* the k-th of the positions of os that satisfy Keep
KthKept(os, Keep(_), k) ==
    LET kept == {j \in DOMAIN os : Keep(os[j])}
    IN  CHOOSE j \in kept : Cardinality({m \in kept : m <= j}) = k

\* list holds exactly the orders of os that satisfy Keep, each once, in the
\* order they have in os
InStoreOrder(list, os, Keep(_)) ==
    /\ Len(list) = Cardinality({j \in DOMAIN os : Keep(os[j])})
    /\ \A k \in DOMAIN list : list[k] = os[KthKept(os, Keep, k)]

\* list holds exactly the orders of os that satisfy Keep, each once, newest
\* first, orders of the same order_time in the order they have in os
NewestFirstOf(list, os, Keep(_)) ==
    /\ Len(list) = Cardinality({j \in DOMAIN os : Keep(os[j])})
    /\ \A j \in DOMAIN os : Keep(os[j]) => \E k \in DOMAIN list : list[k] = os[j]
    /\ \A k, l \in DOMAIN list :
          k < l =>
             \/ getTime(list[k].order_time) > getTime(list[l].order_time)
             \/ /\ getTime(list[k].order_time) = getTime(list[l].order_time)
                /\ \E i, j \in DOMAIN os : i < j /\ os[i] = list[k] /\ os[j] = list[l]

Contains(str, q, rule) ==
    IF rule = "ci" THEN includes(toLowerCase(Chars(str)), toLowerCase(Chars(q)))
    ELSE includes(Chars(str), Chars(q))

SearchSameRule ==
    (mounted = "api" /\ searchQuery # "") =>
        \E rule \in {"exact", "ci"} :
            LET Keep(o) == /\ statusFilter # "all" => o.status = statusFilter
                           /\ \/ Contains(o.order_id, searchQuery, rule)
                              \/ Contains(o.customer_name, searchQuery, rule)
                              \/ Contains(o.customer_phone, searchQuery, rule)
            IN  {apiFilteredOrders[k] : k \in DOMAIN apiFilteredOrders}
                    = {apiOrders[j] : j \in {j \in DOMAIN apiOrders : Keep(apiOrders[j])}}

\* C19 as stated: a failed request for the order list leaves the orders
\* held before it in place and is surfaced.
FailedFetchKeepsOrders ==
    [][\A f \in fetches :
          (f.state = "failed" /\ f \notin fetches')
          => /\ apiOrders' = apiOrders
             /\ mounted = "api" => apiToast' = ErrorToast
             /\ mounted = "hook" => hookError' # {}]_vars

\* C19 amended: a failed request for the order list empties the list (the
\* orders held before it are no longer held), ends the loading state and is
\* surfaced: an error toast in the component, the error state in the hook.
FailedFetchClearsOrders ==
    [][\A f \in fetches :
          (f.state = "failed" /\ f \notin fetches')
          => /\ apiOrders' = << >>
             /\ ~apiLoading'
             /\ mounted = "api" => apiToast' = ErrorToast
             /\ mounted = "hook" => hookError' # {}]_vars

FailedFetchClearsOrdersWitness ==
    /\ mounted = "hook"
    /\ fetches = {}
    /\ dropped # << >>
    /\ apiOrders = << >>
    /\ ~apiLoading
    /\ hookError = {"Failed to load orders"}

\* C20: when a request is answered 401, afterwards the token is gone from
\* the module variable and from localStorage, no user is left in the
\* AuthProvider, and the error thrown is none of the errors thrown for other
\* failures.
UnauthorizedTearsDown ==
    [][(/\ inflight' # inflight
        /\ inflight' \subseteq inflight
        /\ thrown' \in {{AuthFailedError}, {AxiosError(401)}})
       => /\ authToken' = {}
          /\ localStorage'["auth_token"] = {}
          /\ user' = {}
          /\ thrown' \notin {{ApiError}, {AxiosError(500)}}]_vars

\* C21: while the component is not displayed no interval is set, so no
\* interval callback runs and nothing changes the orders, raises an expiry
\* toast or counts an expiry; and at no time is more than one interval set.
TickStopsAtUnmount ==
    [][/\ intervals' <= 1
       /\ ~displayed' => intervals' = 0
       /\ Tick => displayed
       /\ (~displayed /\ ~displayed') =>
             /\ orders' = orders
             /\ lastToast' = lastToast
             /\ expiredToasts' = expiredToasts]_vars

\* the component was unmounted with ORD-001 pending; since then more than two
\* tick periods have passed, the offer has run out, and nothing was written
TickStopsAtUnmountWitness ==
    /\ mounted = "countdown"
    /\ ~displayed
    /\ intervals = 0
    /\ now - lastTick >= 2 * TickPeriodMs
    /\ orders[1].status = "pending"
    /\ getTime(The(orders[1].offerExpiry)) <= now
    /\ expiredToasts[1] = 0

\* C22: a tick and a status update add no order, remove none and move none:
\* the sequence of order ids stays as it was (in the countdown component as
\* the mock data were loaded), every order keeps its order time, and an
\* update changes no order but the one of the id it was made for.  Only a
\* step that stores the answer to a request for the order list may do more.
SameIdsAndTimes(os1, os2) ==
    /\ Len(os2) = Len(os1)
    /\ \A i \in DOMAIN os1 :
          /\ os2[i].order_id = os1[i].order_id
          /\ os2[i].order_time = os1[i].order_time

StoreShapeKept ==
    [][/\ (Tick \/ CardUpdate \/ DialogUpdate) =>
             /\ [i \in DOMAIN orders' |-> orders'[i].id]
                   = [i \in DOMAIN mockOrders(0) |-> mockOrders(0)[i].id]
             /\ \A i \in DOMAIN orders : orders'[i].orderTime = mockOrders(0)[i].orderTime
       /\ (CardUpdate \/ DialogUpdate) =>
             Cardinality({i \in DOMAIN orders : orders'[i] # orders[i]}) <= 1
       /\ (\A f \in fetches : f \in fetches') => SameIdsAndTimes(apiOrders, apiOrders')
       /\ \A r \in requests :
             r \notin requests' =>
                 \A i \in DOMAIN apiOrders :
                     apiOrders[i].order_id # r.orderId => apiOrders'[i] = apiOrders[i]]_vars

\* ticks have run and the merchant has updated two orders; the three mock
\* orders are where they were
StoreShapeKeptWitness ==
    /\ mounted = "countdown"
    /\ lastTick >= 2 * TickPeriodMs
    /\ orders[1].status = "accepted"
    /\ orders[2].status = "in-delivery"
    /\ orders[3].status = "in-delivery"
    /\ orders[3] = mockOrders(0)[3]

\* C23: whenever the details dialog is open, the status buttons it offers are
\* those of the stored status of the order it shows; in particular it offers
\* neither Accept nor Decline for an order the countdown has declined.
DialogOffersStoredStatus ==
    \A i \in DOMAIN orders :
        (selectedOrder # {} /\ orders[i].id = The(selectedOrder).id)
        => StatusButtons(The(selectedOrder).status) = StatusButtons(orders[i].status)

\* C24: when the answer to a status update is stored and no other update of
\* the same order is in flight any more, the stored order is the one the
\* gateway returned for the update of that order it processed last, that is
\* the order as the gateway holds it, in whatever order the answers arrived.
LastProcessedWins ==
    [][\A r \in requests :
          (/\ r.state = "ok"
           /\ r \notin requests'
           /\ \A q \in requests' : q.orderId # r.orderId)
          => \A i \in DOMAIN apiOrders' : \A j \in DOMAIN server :
                apiOrders'[i].order_id = r.orderId /\ server[j].order_id = r.orderId
                => apiOrders'[i] = server[j]]_vars

\* C25: in useOrders the answer to a request for the order list that arrives
\* after a request issued later has been answered and stored changes neither
\* the orders nor the error; and loading is false only while no request for
\* the order list is in flight.
LatestFetchWins ==
    [][/\ \A f \in fetches :
             (/\ f.state # "sent"
              /\ f \notin fetches'
              /\ \E n \in (f.fid + 1)..fetchCount : \A g \in fetches : g.fid # n)
             => /\ apiOrders' = apiOrders
                /\ hookError' = hookError
       /\ (mounted = "hook" /\ ~apiLoading') => fetches' = {}]_vars

\* C26: at all times getAuthToken() returns what localStorage holds under
\* 'auth_token': the stored token, and nothing once the stored token has
\* been removed.
TokenCacheAgrees == getAuthToken = localStorage["auth_token"]

\* C27: while a merchant is logged in through login() of part_006, every
\* request sent through the axios instance carries, in its Authorization
\* header, the token that login stored.
LoginTokenSent ==
    [][\A r \in inflight' \ inflight :
          (mounted = "provider" /\ isAuthenticated /\ sessionStorage["merchant_token"] # {})
          => /\ r.token # {}
             /\ r.token = sessionStorage["merchant_token"]]_vars

\* C28: when logout has run to its end, whatever the answer to the logout
\* call was, nobody is logged in and nothing of the session is stored: in
\* part_006 isAuthenticated is false, merchant is null, loading is false and
\* token and merchant data are gone from sessionStorage and localStorage; in
\* part_000 the user is null and token and user are gone from localStorage.
LogoutAlwaysLogsOut ==
    [][/\ ProviderLogoutDone =>
             /\ ~isAuthenticated'
             /\ merchant' = {}
             /\ ~authLoading'
             /\ \A k \in SessionKeys : sessionStorage'[k] = {} /\ localStorage'[k] = {}
       /\ Logout =>
             /\ user' = {}
             /\ authToken' = {}
             /\ localStorage'["auth_token"] = {}
             /\ localStorage'["merchant_user"] = {}]_vars

\* a merchant who had logged in has logged out, the logout call having failed
LogoutAlwaysLogsOutWitness ==
    /\ mounted = "provider"
    /\ logoutResult = {500}
    /\ pending = {}
    /\ ~isAuthenticated
    /\ merchant = {}
    /\ sessionStorage["merchant_token"] = {}

\* C29: onSubmit is called only with a form that has a non-blank name, a
\* discount value above 0 (and of at most 100 for a percentage), a valid
\* from date strictly before the valid till date, and at least one product
\* id when the level is product; a submit of any other form calls nothing,
\* leaves the dialog open and loading false; and loading is false again
\* when a submit attempt has ended, in success or in failure.
IsBefore(a, b) ==
    /\ ParseDate(a) # {}
    /\ ParseDate(b) # {}
    /\ The(ParseDate(a)) < The(ParseDate(b))

ValidForm(fd) ==
    /\ \E i \in DOMAIN Chars(fd.name) : Chars(fd.name)[i] # " "
    /\ fd.discount_value > 0
    /\ fd.type = "percentage" => fd.discount_value <= 100
    /\ IsBefore(fd.valid_from, fd.valid_till)
    /\ fd.level = "product" => Len(fd.product_ids) >= 1

SubmitValidated ==
    [][/\ (onSubmitCall = {} /\ onSubmitCall' # {}) =>
             /\ ValidForm(formData)
             /\ submitted' = onSubmitCall'
       /\ (HandleSubmit /\ ~ValidForm(formData)) =>
             /\ onSubmitCall' = {}
             /\ submitted' = submitted
             /\ isOpen'
             /\ ~offerLoading'
       /\ HandleSubmitDone => ~offerLoading'
       /\ offerLoading' => onSubmitCall' # {}]_vars

\* a product-level offer has been submitted and saved, the dialog is closed
SubmitValidatedWitness ==
    /\ mounted = "offer"
    /\ ~isOpen
    /\ ~offerLoading
    /\ offerToast = OfferCreatedToast
    /\ submitted # {}
    /\ The(submitted).name = "Sale"
    /\ The(submitted).level = "product"
    /\ The(submitted).product_ids = <<"p1">>
    /\ The(submitted).valid_till = toISOString(The(ParseDate("2024-01-22")))

\* C30: under each of the six sort options the list shown is ordered as the
\* label of the option says (price-low: selling price not decreasing,
\* price-high: not increasing, quantity-high: stock not increasing,
\* quantity-low: not decreasing, name-az: names ascending, name-za:
\* descending), and it holds exactly the products that pass the search and
\* the category filter, each once.
InLabelledOrder(l, sb, a, b) ==
    CASE sb = "price-low" -> SellingPrice(l, a) <= SellingPrice(l, b)
      [] sb = "price-high" -> SellingPrice(l, a) >= SellingPrice(l, b)
      [] sb = "quantity-high" -> Stock(l, a) >= Stock(l, b)
      [] sb = "quantity-low" -> Stock(l, a) <= Stock(l, b)
      [] sb = "name-az" -> localeCompare(a.name, b.name) <= 0
      [] sb = "name-za" -> localeCompare(a.name, b.name) >= 0
      [] OTHER -> TRUE

SortedAsLabelled ==
    /\ \A i, j \in DOMAIN filteredProducts :
          i < j => InLabelledOrder(listing, sortBy, filteredProducts[i], filteredProducts[j])
    /\ Len(filteredProducts) =
          Cardinality({i \in DOMAIN products :
                          PassesFilters(products[i], productQuery, selectedCategory)})
    /\ \A i \in DOMAIN products :
          PassesFilters(products[i], productQuery, selectedCategory)
          => \E j \in DOMAIN filteredProducts : filteredProducts[j] = products[i]

====
